---------------------------- MODULE Spec2Model ----------------------------
(***************************************************************************)
(* Model of src/server.js (lines 1-386; lines 388-652 are an older copy of *)
(* the same file without /api/match-jobs): an Express application with a   *)
(* CORS origin check, a JSON body parser, a multer upload gate and three   *)
(* routes.  Text is a sequence of one-character strings so that the        *)
(* string functions of the code (toLowerCase, lastIndexOf, slice, trim,    *)
(* match, JSON.parse) are computed and not assumed.                        *)
(*                                                                         *)
(* Library behaviour the code relies on (express 4, cors, multer):         *)
(*  - next(err) with no error middleware registered ends in Express's      *)
(*    default error handler: status err.status when 4xx/5xx, else 500,     *)
(*    and an HTML (not JSON) body;                                         *)
(*  - cors calls next(err) when the origin callback reports an error;      *)
(*  - multer runs fileFilter when a file part starts, then enforces        *)
(*    limits.fileSize while reading it, and calls next(err) on either;     *)
(*  - express.json() leaves req.body = {} when there is no JSON body and   *)
(*    calls next(err) with status 400 on malformed JSON.                   *)
(***************************************************************************)
EXTENDS Integers, Sequences, FiniteSets, TLC

VARIABLES env, reqs, probe

vars == <<env, reqs, probe>>

----------------------------------------------------------------------------
(* Bounds *)

MaxRequests == 1
MaxTokens == 4

Requests == 1..MaxRequests

----------------------------------------------------------------------------
(* JavaScript values *)

Undefined == [t |-> "undefined"]
Null == [t |-> "null"]
Str(s) == [t |-> "string", v |-> s]
Num(k) == [t |-> "number", n |-> k]
Arr(a) == [t |-> "array", items |-> a]
Obj(m) == [t |-> "object", members |-> m]

\* JavaScript truthiness, as used by `!x` and `if (x)`.
Truthy(x) ==
  CASE x.t = "undefined" -> FALSE
    [] x.t = "null" -> FALSE
    [] x.t = "string" -> x.v # <<>>
    [] x.t = "number" -> x.n # 0
    [] OTHER -> TRUE

----------------------------------------------------------------------------
(* Text *)

LowerSeq == <<"a","b","c","d","e","f","g","h","i","j","k","l","m",
              "n","o","p","q","r","s","t","u","v","w","x","y","z">>
UpperSeq == <<"A","B","C","D","E","F","G","H","I","J","K","L","M",
              "N","O","P","Q","R","S","T","U","V","W","X","Y","Z">>
DigitSeq == <<"0","1","2","3","4","5","6","7","8","9">>

Range(s) == {s[i] : i \in DOMAIN s}

Min(a, b) == IF a < b THEN a ELSE b
Max(a, b) == IF a > b THEN a ELSE b

\* String.prototype.toLowerCase on one character.
LowerChar(c) ==
  IF \E i \in DOMAIN UpperSeq : UpperSeq[i] = c
  THEN LowerSeq[CHOOSE i \in DOMAIN UpperSeq : UpperSeq[i] = c]
  ELSE c

ToLowerCase(s) == [i \in DOMAIN s |-> LowerChar(s[i])]

\* String.prototype.lastIndexOf for a one-character needle: 0-based, -1 if absent.
LastIndexOf(s, c) ==
  IF \E i \in DOMAIN s : s[i] = c
  THEN (CHOOSE i \in DOMAIN s : s[i] = c /\ \A j \in DOMAIN s : s[j] = c => j <= i) - 1
  ELSE -1

\* String.prototype.slice(start): a negative start counts from the end.
Slice(s, start) ==
  LET from == IF start < 0 THEN Max(Len(s) + start, 0) ELSE Min(start, Len(s))
  IN SubSeq(s, from + 1, Len(s))

WhiteSpace == {" ", "\n", "\t"}

RECURSIVE TrimStart(_)
TrimStart(s) ==
  IF s # <<>> /\ Head(s) \in WhiteSpace THEN TrimStart(Tail(s)) ELSE s

RECURSIVE TrimEnd(_)
TrimEnd(s) ==
  IF s # <<>> /\ s[Len(s)] \in WhiteSpace THEN TrimEnd(SubSeq(s, 1, Len(s) - 1)) ELSE s

\* String.prototype.trim
Trim(s) == TrimEnd(TrimStart(s))

StartsWith(s, p) == Len(s) >= Len(p) /\ SubSeq(s, 1, Len(p)) = p

----------------------------------------------------------------------------
(* CORS origin callback, server.js 39-61 *)

S_https == <<"h","t","t","p","s",":","/","/">>
S_http == <<"h","t","t","p",":","/","/">>
S_lovable_dev == <<"l","o","v","a","b","l","e",".","d","e","v">>
S_lovableproject_com ==
  <<"l","o","v","a","b","l","e","p","r","o","j","e","c","t",".","c","o","m">>
S_localhost == S_http \o <<"l","o","c","a","l","h","o","s","t",":","5","1","7","3">>
S_project ==
  S_https \o <<"f","b","9","7","4","7","9","9","-","e","a","5","e","-","4","d","7","f","-",
               "b","7","d","5","-","5","9","f","d","6","e","9","0","9","e","7","d",".">>
          \o S_lovableproject_com
S_railway ==
  S_https \o <<"j","o","b","-","m","a","t","c","h","e","r","-","b","a","c","k","e","n","d","-",
               "p","r","o","d","u","c","t","i","o","n","-","4","6","0","0",".","u","p",".",
               "r","a","i","l","w","a","y",".","a","p","p">>

allowedOrigins == {S_localhost, S_https \o S_lovable_dev, S_project, S_railway}

\* The character class [a-zA-Z0-9-].
LabelClass == Range(LowerSeq) \cup Range(UpperSeq) \cup Range(DigitSeq) \cup {"-"}

\* Index of the first character at or after i that is outside the class
\* (Len(s) + 1 when there is none): the greedy run of [a-zA-Z0-9-]+.
RECURSIVE ClassRunEnd(_, _)
ClassRunEnd(s, i) ==
  IF i <= Len(s) /\ s[i] \in LabelClass THEN ClassRunEnd(s, i + 1) ELSE i

\* The same pattern without the trailing $ (a look-alike host would then match).
MatchSubdomainNoEnd(s, base) ==
  /\ StartsWith(s, S_https)
  /\ LET e == ClassRunEnd(s, Len(S_https) + 1)
     IN /\ e > Len(S_https) + 1
        /\ StartsWith(SubSeq(s, e, Len(s)), <<".">> \o base)

\* origin.match(/^https:\/\/[a-zA-Z0-9-]+\.<base>$/), base with its dots escaped.
\* The class excludes '.', so the run ends at the first '.', without backtracking.
MatchSubdomain(s, base) ==
  /\ StartsWith(s, S_https)
  /\ LET e == ClassRunEnd(s, Len(S_https) + 1)
     IN /\ e > Len(S_https) + 1
        /\ SubSeq(s, e, Len(s)) = <<".">> \o base

\* The origin callback: TRUE is callback(null, true), FALSE is callback(new Error(..)).
OriginAllowed(origin) ==
  IF ~Truthy(origin) THEN TRUE
  ELSE \/ origin.v \in allowedOrigins
       \/ MatchSubdomain(origin.v, S_lovable_dev)
       \/ MatchSubdomain(origin.v, S_lovableproject_com)


----------------------------------------------------------------------------
(* Upload gate, server.js 21-36 *)

\* limits.fileSize
MaxFileSize == 10 * 1024 * 1024

allowedTypes == {<<".","p","d","f">>, <<".","d","o","c","x">>, <<".","t","x","t">>}

\* originalname.toLowerCase().slice(originalname.lastIndexOf('.'))
FileExt(originalname) == Slice(ToLowerCase(originalname), LastIndexOf(originalname, "."))

\* fileFilter: TRUE is cb(null, true), FALSE is cb(new Error('Invalid file type...')).
fileFilter(originalname) == FileExt(originalname) \in allowedTypes

\* No size limit at all.
SizeVerdictsNoLimit(size) == {TRUE}

\* The verdicts multer can give on a file of `size` bytes (TRUE accepts).  A file
\* of exactly limits.fileSize bytes is accepted or refused depending on the
\* multipart parser the installed multer uses, so both verdicts are possible.
SizeVerdicts(size) ==
  IF size < MaxFileSize THEN {TRUE}
  ELSE IF size > MaxFileSize THEN {FALSE}
  ELSE {TRUE, FALSE}

NoFile == [present |-> FALSE, originalname |-> <<>>, size |-> 0]
File(n, sz) == [present |-> TRUE, originalname |-> n, size |-> sz]

----------------------------------------------------------------------------
(* Text extraction, server.js 78-126 *)

T_jane == <<"J","a","n","e">>
T_bob == <<"B","o","b">>
T_blank == <<" ","\n">>

\* What the decoding libraries can give back for some buffer: a text, or an
\* exception.  buffer.toString('utf-8') never throws.
LibraryTexts == {<<>>, T_blank, T_jane}
LibraryResults(ext) ==
  IF ext = <<".","t","x","t">>
  THEN {[threw |-> FALSE, text |-> t] : t \in LibraryTexts}
  ELSE {[threw |-> FALSE, text |-> t] : t \in LibraryTexts}
         \cup {[threw |-> TRUE, text |-> <<>>]}

\* extractTextFromFile: the switch on the extension and the wrapped failure.
\* `lib` is what the library did with the buffer.
extractTextFromFile(file, lib) ==
  LET fileExt == FileExt(file.originalname)
  IN IF fileExt \in allowedTypes
     THEN IF lib.threw
          THEN [threw |-> TRUE, text |-> <<>>, message |-> "Failed to extract text"]
          ELSE [threw |-> FALSE, text |-> lib.text, message |-> ""]
     ELSE [threw |-> TRUE, text |-> <<>>, message |-> "Unsupported file type"]

----------------------------------------------------------------------------
(* JSON.parse, server.js 232 and 350.  The grammar modelled: white space,   *)
(* null, true, false, integers, strings without escapes, arrays, objects.  *)

JsonWs == {" ", "\n", "\t", "\r"}

RECURSIVE SkipWs(_, _)
SkipWs(s, i) == IF i <= Len(s) /\ s[i] \in JsonWs THEN SkipWs(s, i + 1) ELSE i

PFail == [ok |-> FALSE, next |-> 0, value |-> Undefined]
POk(n, x) == [ok |-> TRUE, next |-> n, value |-> x]

PLiteral(s, i, lit, x) ==
  IF SubSeq(s, i, i + Len(lit) - 1) = lit /\ i + Len(lit) - 1 <= Len(s)
  THEN POk(i + Len(lit), x) ELSE PFail

\* s[i] is the opening quote: the string ends at the next quote.
PString(s, i) ==
  IF \E j \in (i + 1)..Len(s) : s[j] = "\""
  THEN LET j == CHOOSE j \in (i + 1)..Len(s) :
                  s[j] = "\"" /\ \A k \in (i + 1)..(j - 1) : s[k] # "\""
           body == SubSeq(s, i + 1, j - 1)
       IN IF Range(body) \cap {"\n", "\t", "\r", "\\"} = {}
          THEN POk(j + 1, Str(body)) ELSE PFail
  ELSE PFail

DigitValue(c) == (CHOOSE k \in DOMAIN DigitSeq : DigitSeq[k] = c) - 1

RECURSIVE DigitsEnd(_, _)
DigitsEnd(s, i) ==
  IF i <= Len(s) /\ s[i] \in Range(DigitSeq) THEN DigitsEnd(s, i + 1) ELSE i

RECURSIVE DigitsValue(_)
DigitsValue(d) ==
  IF d = <<>> THEN 0
  ELSE 10 * DigitsValue(SubSeq(d, 1, Len(d) - 1)) + DigitValue(d[Len(d)])

\* An integer: -?(0|[1-9][0-9]*), not followed by a fraction or an exponent.
PNumber(s, i) ==
  LET neg == s[i] = "-"
      b == IF neg THEN i + 1 ELSE i
      e == DigitsEnd(s, b)
      d == SubSeq(s, b, e - 1)
  IN IF d = <<>> \/ (Len(d) > 1 /\ d[1] = "0") THEN PFail
     ELSE IF e <= Len(s) /\ s[e] \in {".", "e", "E"} THEN PFail
     ELSE POk(e, Num(IF neg THEN 0 - DigitsValue(d) ELSE DigitsValue(d)))

RECURSIVE PValue(_, _), PElements(_, _, _), PMembers(_, _, _)

PValue(s, i0) ==
  LET i == SkipWs(s, i0)
  IN IF i > Len(s) THEN PFail
     ELSE CASE s[i] = "{" ->
                 LET j == SkipWs(s, i + 1)
                 IN IF j <= Len(s) /\ s[j] = "}" THEN POk(j + 1, Obj(<<>>))
                    ELSE PMembers(s, j, <<>>)
            [] s[i] = "[" ->
                 LET j == SkipWs(s, i + 1)
                 IN IF j <= Len(s) /\ s[j] = "]" THEN POk(j + 1, Arr(<<>>))
                    ELSE PElements(s, j, <<>>)
            [] s[i] = "\"" -> PString(s, i)
            [] s[i] = "n" -> PLiteral(s, i, <<"n","u","l","l">>, Null)
            [] s[i] = "t" -> PLiteral(s, i, <<"t","r","u","e">>, [t |-> "boolean", b |-> TRUE])
            [] s[i] = "f" -> PLiteral(s, i, <<"f","a","l","s","e">>, [t |-> "boolean", b |-> FALSE])
            [] s[i] \in Range(DigitSeq) \cup {"-"} -> PNumber(s, i)
            [] OTHER -> PFail

\* The elements of an array after '[', up to and including its ']'.
PElements(s, i, acc) ==
  LET x == PValue(s, i)
  IN IF ~x.ok THEN PFail
     ELSE LET j == SkipWs(s, x.next)
          IN IF j > Len(s) THEN PFail
             ELSE IF s[j] = "," THEN PElements(s, j + 1, Append(acc, x.value))
             ELSE IF s[j] = "]" THEN POk(j + 1, Arr(Append(acc, x.value)))
             ELSE PFail

\* The members of an object after '{', up to and including its '}'.
PMembers(s, i0, acc) ==
  LET i == SkipWs(s, i0)
  IN IF i > Len(s) \/ s[i] # "\"" THEN PFail
     ELSE LET k == PString(s, i)
          IN IF ~k.ok THEN PFail
             ELSE LET c == SkipWs(s, k.next)
                  IN IF c > Len(s) \/ s[c] # ":" THEN PFail
                     ELSE LET x == PValue(s, c + 1)
                          IN IF ~x.ok THEN PFail
                             ELSE LET j == SkipWs(s, x.next)
                                      m == Append(acc, [key |-> k.value.v, value |-> x.value])
                                  IN IF j > Len(s) THEN PFail
                                     ELSE IF s[j] = "," THEN PMembers(s, j + 1, m)
                                     ELSE IF s[j] = "}" THEN POk(j + 1, Obj(m))
                                     ELSE PFail

\* U+0060, which the module language cannot write inside a string.
BackTick == "U+0060"

S_fence == <<BackTick, BackTick, BackTick>>

\* Removes a leading and a trailing markdown fence, when both are there.
StripFences(s) ==
  IF StartsWith(s, S_fence) /\ Len(s) >= 2 * Len(S_fence)
     /\ SubSeq(s, Len(s) - Len(S_fence) + 1, Len(s)) = S_fence
  THEN SubSeq(s, Len(S_fence) + 1, Len(s) - Len(S_fence))
  ELSE s

\* A parse that first strips markdown fences.
JSONparseLenient(s) ==
  LET x == PValue(StripFences(s), 1)
  IN IF x.ok /\ SkipWs(StripFences(s), x.next) = Len(StripFences(s)) + 1
     THEN [threw |-> FALSE, value |-> x.value]
     ELSE [threw |-> TRUE, value |-> Undefined]

\* JSON.parse(text): the value, or a SyntaxError; no pre-processing of the text.
JSONparse(s) ==
  LET x == PValue(s, 1)
  IN IF x.ok /\ SkipWs(s, x.next) = Len(s) + 1
     THEN [threw |-> FALSE, value |-> x.value]
     ELSE [threw |-> TRUE, value |-> Undefined]

----------------------------------------------------------------------------
(* Prompt templates, server.js 185-223 and 283-341.  A prompt is the        *)
(* template it was rendered from and the texts spliced into it, in order.  *)

NoPrompt == [template |-> "none", parts |-> <<>>]

RECURSIVE IntToStr(_)
IntToStr(k) ==
  IF k < 10 THEN <<DigitSeq[k + 1]>>
  ELSE IntToStr(k \div 10) \o <<DigitSeq[(k % 10) + 1]>>

\* `${x}` for the values the model sends.
TemplateString(x) ==
  CASE x.t = "string" -> x.v
    [] x.t = "number" -> IntToStr(x.n)
    [] x.t = "null" -> <<"n","u","l","l">>
    [] x.t = "undefined" -> <<"u","n","d","e","f","i","n","e","d">>
    [] OTHER -> <<"[","o","b","j","e","c","t"," ","O","b","j","e","c","t","]">>

\* JSON.stringify(x, null, 2) for the values the model sends as userProfile.
JSONstringify(x) ==
  CASE x.t = "string" -> <<"\"">> \o x.v \o <<"\"">>
    [] x.t = "number" -> IntToStr(x.n)
    [] x.t = "array" /\ x.items = <<>> -> <<"[","]">>
    [] OTHER -> <<"{","}">>

RECURSIVE JoinLines(_)
JoinLines(lines) ==
  IF lines = <<>> THEN <<>>
  ELSE IF Len(lines) = 1 THEN lines[1]
  ELSE lines[1] \o <<"\n">> \o JoinLines(Tail(lines))

\* userAnswers.map((answer, index) => `Q${index + 1}: ${answer}`).join('\n')
AnswerLines(items) ==
  JoinLines([i \in DOMAIN items |->
               <<"Q">> \o IntToStr(i) \o <<":", " ">> \o TemplateString(items[i])])

\* The template literal of /api/analyze-resume.
AnalyzePrompt(resumeText) ==
  [threw |-> FALSE,
   prompt |-> [template |-> "resume-analysis", parts |-> <<TemplateString(resumeText)>>]]

\* A template that renders whatever userAnswers is, an array or not.
MatchPromptAnyType(userProfile, userAnswers) ==
  [threw |-> FALSE,
   prompt |-> [template |-> "job-matching",
               parts |-> <<JSONstringify(userProfile),
                           IF userAnswers.t = "array" THEN AnswerLines(userAnswers.items)
                           ELSE TemplateString(userAnswers)>>]]

\* The template literal of /api/match-jobs: only an array has .map.
MatchPrompt(userProfile, userAnswers) ==
  IF userAnswers.t = "array"
  THEN [threw |-> FALSE,
        prompt |-> [template |-> "job-matching",
                    parts |-> <<JSONstringify(userProfile), AnswerLines(userAnswers.items)>>]]
  ELSE [threw |-> TRUE, prompt |-> NoPrompt]

----------------------------------------------------------------------------
(* Requests and responses *)

NoResponse ==
  [kind |-> "none", keys |-> {}, error |-> "", message |-> "",
   details |-> Undefined, payload |-> Undefined]

\* res.json({error, message})
ErrorMessage(e, m) ==
  [kind |-> "json", keys |-> {"error", "message"}, error |-> e, message |-> m,
   details |-> Undefined, payload |-> Undefined]

\* res.json({error})
ErrorOnly(e) ==
  [kind |-> "json", keys |-> {"error"}, error |-> e, message |-> "",
   details |-> Undefined, payload |-> Undefined]

\* res.json({error, details})
ErrorDetails(e, d) ==
  [kind |-> "json", keys |-> {"error", "details"}, error |-> e, message |-> "",
   details |-> d, payload |-> Undefined]

\* res.json(value)
JsonValue(x) ==
  [kind |-> "json", keys |-> {}, error |-> "", message |-> "",
   details |-> Undefined, payload |-> x]

\* The page Express's default error handler writes.
ErrorPage ==
  [kind |-> "html", keys |-> {}, error |-> "", message |-> "",
   details |-> Undefined, payload |-> Undefined]

EmptyBody == [resumeText |-> Undefined, userProfile |-> Undefined, userAnswers |-> Undefined]

\* What extractTextFromFile gave back, once it has been called.
NoExtraction == [called |-> FALSE, threw |-> FALSE, text |-> <<>>]

Idle ==
  [pc |-> "idle", route |-> "none", origin |-> Undefined, multipart |-> FALSE,
   body |-> EmptyBody, upload |-> NoFile, file |-> NoFile,
   resumeText |-> Str(<<>>), prompt |-> NoPrompt, responseText |-> Undefined,
   parsedResult |-> Undefined, extraction |-> NoExtraction, extractCalls |-> 0, llmCalls |-> 0,
   responses |-> 0, status |-> 0, by |-> "none", res |-> NoResponse]

\* A response written by `by`: "handler" (a route handler of server.js) or
\* "default" (Express's default error handler); the handling of the request ends.
Respond(q, by, status, body) ==
  [q EXCEPT !.pc = "done", !.responses = @ + 1, !.status = status,
            !.by = by, !.res = body]

\* next(err) with no error middleware: the default handler takes err.status
\* when it is a 4xx or 5xx status and 500 otherwise.
DefaultErrorHandler(q, errStatus) ==
  Respond(q, "default", IF errStatus >= 400 /\ errStatus < 600 THEN errStatus ELSE 500,
          ErrorPage)

\* The catch block of a route handler, server.js 244-251 and 362-369.
CatchAll(q, message) ==
  Respond(q, "handler", 500,
          ErrorMessage(IF q.route = "analyze" THEN "Failed to analyze resume"
                       ELSE "Failed to match jobs", message))

----------------------------------------------------------------------------
(* Inputs *)

S_evil == S_https \o <<"e","v","i","l",".","c","o","m">>
S_foo_lovable == S_https \o <<"f","o","o",".">> \o S_lovable_dev

Origins == {Undefined, Str(S_foo_lovable), Str(S_evil)}

Routes == {"health", "analyze", "match"}

ApiKeys == {Undefined, Str(<<>>), Str(<<"k","e","y">>)}

FileNames ==
  { <<"a",".","p","d","f">>, <<"A",".","P","d","F">>, <<"a",".","d","o","c","x">>,
    <<"a",".","t","x","t">>, <<"a",".","x","l","s","x">>, <<"c","v">>,
    <<"a",".","t","x","t",".","s","h">> }

FileSizes == {1, MaxFileSize, MaxFileSize + 1}

Uploads == {NoFile} \cup {File(n, sz) : n \in FileNames, sz \in FileSizes}

\* JSON bodies of /api/analyze-resume.
AnalyzeBodies ==
  {[EmptyBody EXCEPT !.resumeText = x] :
     x \in {Undefined, Str(<<>>), Str(T_blank), Str(T_bob), Num(7)}}

\* Text fields of a multipart request: always strings.
MultipartBodies ==
  {[EmptyBody EXCEPT !.resumeText = x] : x \in {Undefined, Str(T_bob)}}

\* JSON bodies of /api/match-jobs.
MatchBodies ==
  {[EmptyBody EXCEPT !.userProfile = p, !.userAnswers = a] :
     p \in {Undefined, Null, Obj(<<>>)},
     a \in {Undefined, Arr(<<>>), Arr(<<Str(<<"y">>), Str(<<"n">>)>>),
            Str(<<"y">>), Obj(<<>>)}}

C_object == <<"{","\"","q","\"",":","[","\"","x","\"","]","}">>
C_null == <<"n","u","l","l">>
C_sorry == <<"S","o","r","r","y">>
C_fenced == S_fence \o <<"{","}">> \o S_fence
C_comma == <<"[","1",",","]">>

\* What the provider can answer: a completion text, or a failure.
Completions == {C_object, C_null, C_sorry, C_fenced, C_comma, <<>>}

----------------------------------------------------------------------------
(* The middleware chain and the handlers, one step per stage.  Each step   *)
(* is a function of the request's record and of the input it consumes.     *)

\* An origin check that only withholds the CORS headers and lets the request on.
CorsStepHeadersOnly(q) == [q EXCEPT !.pc = "json"]

\* app.use(cors({origin: ...})), server.js 39-66: the callback's Error goes to next(err).
CorsStep(q) ==
  IF OriginAllowed(q.origin) THEN [q EXCEPT !.pc = "json"]
  ELSE DefaultErrorHandler(q, 0)

\* app.use(express.json()), server.js 69.  `content` is what the request carries.
JsonStep(q, content) ==
  CASE content.kind = "malformed" -> DefaultErrorHandler(q, 400)
    [] content.kind = "multipart" -> [q EXCEPT !.multipart = TRUE, !.pc = "route"]
    [] content.kind = "json" -> [q EXCEPT !.body = content.body, !.pc = "route"]
    [] OTHER -> [q EXCEPT !.pc = "route"]

\* app.get('/api/health'), server.js 132-134.
HealthStep(q) ==
  Respond(q, "handler", 200,
          JsonValue(Obj(<<[key |-> <<"s","t","a","t","u","s">>, value |-> Str(<<"o","k">>)]>>)))

\* upload.single('file'), server.js 21-36 and 141: the filter, then the size limit.
MulterStep(q, upload, fields, sizeOk) ==
  IF ~q.multipart THEN [q EXCEPT !.pc = "h_file"]
  ELSE IF ~upload.present THEN [q EXCEPT !.body = fields, !.pc = "h_file"]
  ELSE IF ~fileFilter(upload.originalname)
       THEN DefaultErrorHandler([q EXCEPT !.upload = upload], 0)
  ELSE IF ~sizeOk THEN DefaultErrorHandler([q EXCEPT !.upload = upload], 0)
  ELSE [q EXCEPT !.upload = upload, !.file = upload, !.body = fields, !.pc = "h_file"]

\* The route's own express.json(), server.js 258: the body is already parsed.
MatchJsonStep(q) == [q EXCEPT !.pc = "m_check"]

\* A handler that falls back on the body's text when the file gave none.
AnalyzeFileStepFallback(q, lib) ==
  IF q.file.present
  THEN LET x == extractTextFromFile(q.file, lib)
           q1 == [q EXCEPT !.extractCalls = @ + 1,
                           !.extraction = [called |-> TRUE, threw |-> x.threw, text |-> x.text]]
       IN IF x.threw \/ Trim(x.text) = <<>>
          THEN [q1 EXCEPT !.resumeText =
                            IF Truthy(q.body.resumeText) THEN q.body.resumeText ELSE Str(<<>>),
                          !.pc = "h_check"]
          ELSE [q1 EXCEPT !.resumeText = Str(x.text), !.pc = "h_check"]
  ELSE IF Truthy(q.body.resumeText)
       THEN [q EXCEPT !.resumeText = q.body.resumeText, !.pc = "h_check"]
  ELSE [q EXCEPT !.pc = "h_check"]

\* server.js 143-162: the file if there is one, else the body's resumeText.
AnalyzeFileStep(q, lib) ==
  IF q.file.present
  THEN LET x == extractTextFromFile(q.file, lib)
           q1 == [q EXCEPT !.extractCalls = @ + 1,
                           !.extraction = [called |-> TRUE, threw |-> x.threw, text |-> x.text]]
       IN IF x.threw
          THEN Respond(q1, "handler", 400,
                       ErrorMessage("Failed to process uploaded file", x.message))
          ELSE [q1 EXCEPT !.resumeText = Str(x.text), !.pc = "h_check"]
  ELSE IF Truthy(q.body.resumeText)
       THEN [q EXCEPT !.resumeText = q.body.resumeText, !.pc = "h_check"]
  ELSE [q EXCEPT !.pc = "h_check"]

\* A key check that only notices a variable that is not set at all.
AnalyzeCheckStepUnsetOnly(q, key) ==
  IF ~Truthy(q.resumeText)
  THEN Respond(q, "handler", 400,
               ErrorMessage("Resume text or file is required", "Please provide either"))
  ELSE IF q.resumeText.t # "string"
  THEN CatchAll(q, "resumeText.trim is not a function")
  ELSE IF Len(Trim(q.resumeText.v)) = 0
  THEN Respond(q, "handler", 400,
               ErrorMessage("Resume text or file is required", "Please provide either"))
  ELSE IF key = Undefined
  THEN Respond(q, "handler", 500, ErrorOnly("GEMINI_API_KEY not configured in .env file"))
  ELSE [q EXCEPT !.pc = "prompt"]

\* A non-empty check that does not trim: white space counts as a resume.
AnalyzeCheckStepNoTrim(q, key) ==
  IF ~Truthy(q.resumeText)
  THEN Respond(q, "handler", 400,
               ErrorMessage("Resume text or file is required", "Please provide either"))
  ELSE IF ~Truthy(key)
  THEN Respond(q, "handler", 500, ErrorOnly("GEMINI_API_KEY not configured in .env file"))
  ELSE [q EXCEPT !.pc = "prompt"]

\* server.js 164-177: the non-empty check, then the API key check.
AnalyzeCheckStep(q, key) ==
  IF ~Truthy(q.resumeText)
  THEN Respond(q, "handler", 400,
               ErrorMessage("Resume text or file is required", "Please provide either"))
  ELSE IF q.resumeText.t # "string"
  THEN CatchAll(q, "resumeText.trim is not a function")
  ELSE IF Len(Trim(q.resumeText.v)) = 0
  THEN Respond(q, "handler", 400,
               ErrorMessage("Resume text or file is required", "Please provide either"))
  ELSE IF ~Truthy(key)
  THEN Respond(q, "handler", 500, ErrorOnly("GEMINI_API_KEY not configured in .env file"))
  ELSE [q EXCEPT !.pc = "prompt"]

\* The two checks in the other order.
MatchCheckStepKeyFirst(q, key) ==
  IF ~Truthy(key)
  THEN Respond(q, "handler", 500, ErrorOnly("GEMINI_API_KEY not configured in .env file"))
  ELSE IF ~Truthy(q.body.userProfile) \/ ~Truthy(q.body.userAnswers)
  THEN Respond(q, "handler", 400,
               ErrorMessage("Missing required fields",
                            "Please provide userProfile and userAnswers"))
  ELSE [q EXCEPT !.pc = "prompt"]

\* server.js 260-275: the required fields, then the API key check.
MatchCheckStep(q, key) ==
  IF ~Truthy(q.body.userProfile) \/ ~Truthy(q.body.userAnswers)
  THEN Respond(q, "handler", 400,
               ErrorMessage("Missing required fields",
                            "Please provide userProfile and userAnswers"))
  ELSE IF ~Truthy(key)
  THEN Respond(q, "handler", 500, ErrorOnly("GEMINI_API_KEY not configured in .env file"))
  ELSE [q EXCEPT !.pc = "prompt"]

\* The argument of generateContent, server.js 185-223 and 283-341.
PromptStep(q) ==
  LET x == IF q.route = "analyze" THEN AnalyzePrompt(q.resumeText)
           ELSE MatchPrompt(q.body.userProfile, q.body.userAnswers)
  IN IF x.threw THEN CatchAll(q, "userAnswers.map is not a function")
     ELSE [q EXCEPT !.prompt = x.prompt, !.pc = "call"]

\* model.generateContent(prompt) is invoked, server.js 185 and 283.
CallStep(q) == [q EXCEPT !.llmCalls = @ + 1, !.pc = "await"]

\* A provider failure that is answered by calling the provider once more.
ReturnStepRetry(q, outcome) ==
  IF outcome.threw
  THEN IF q.llmCalls < 2 THEN [q EXCEPT !.pc = "call"] ELSE CatchAll(q, "provider error")
  ELSE [q EXCEPT !.responseText = Str(outcome.text), !.pc = "parse"]

\* The await ends: a completion (result.response.text()), or an exception.
ReturnStep(q, outcome) ==
  IF outcome.threw THEN CatchAll(q, "provider error")
  ELSE [q EXCEPT !.responseText = Str(outcome.text), !.pc = "parse"]

ParseErrorName(q) ==
  IF q.route = "analyze" THEN "Failed to parse AI response"
  ELSE "Failed to parse job matching response"

\* A parse failure that answers and then goes on to res.json(parsedResult).
ParseStepNoReturn(q) ==
  LET x == JSONparse(q.responseText.v)
  IN IF x.threw
     THEN [Respond(q, "handler", 500, ErrorDetails(ParseErrorName(q), q.responseText))
             EXCEPT !.pc = "send"]
     ELSE [q EXCEPT !.parsedResult = x.value, !.pc = "send"]

\* server.js 229-239 and 347-357.
ParseStep(q) ==
  LET x == JSONparse(q.responseText.v)
  IN IF x.threw
     THEN Respond(q, "handler", 500, ErrorDetails(ParseErrorName(q), q.responseText))
     ELSE [q EXCEPT !.parsedResult = x.value, !.pc = "send"]

\* res.json(parsedResult), server.js 242 and 360.
SendStep(q) == Respond(q, "handler", 200, JsonValue(q.parsedResult))

----------------------------------------------------------------------------
(* Actions *)

Receive(r) ==
  /\ reqs[r].pc = "idle"
  /\ \A k \in 1..(r - 1) : reqs[k].pc # "idle"
  /\ \E route \in Routes, origin \in Origins :
       reqs' = [reqs EXCEPT ![r] = [Idle EXCEPT !.pc = "cors", !.route = route,
                                                !.origin = origin]]
  /\ UNCHANGED <<env, probe>>

Cors(r) ==
  /\ reqs[r].pc = "cors"
  /\ reqs' = [reqs EXCEPT ![r] = CorsStep(reqs[r])]
  /\ UNCHANGED <<env, probe>>

Contents(route) ==
  CASE route = "analyze" ->
         {[kind |-> "malformed", body |-> EmptyBody], [kind |-> "multipart", body |-> EmptyBody]}
           \cup {[kind |-> "json", body |-> b] : b \in AnalyzeBodies}
    [] route = "match" ->
         {[kind |-> "malformed", body |-> EmptyBody]}
           \cup {[kind |-> "json", body |-> b] : b \in MatchBodies}
    [] OTHER -> {[kind |-> "none", body |-> EmptyBody]}

Json(r) ==
  /\ reqs[r].pc = "json"
  /\ \E content \in Contents(reqs[r].route) :
       reqs' = [reqs EXCEPT ![r] = JsonStep(reqs[r], content)]
  /\ UNCHANGED <<env, probe>>

Health(r) ==
  /\ reqs[r].pc = "route" /\ reqs[r].route = "health"
  /\ reqs' = [reqs EXCEPT ![r] = HealthStep(reqs[r])]
  /\ UNCHANGED <<env, probe>>

Multer(r) ==
  /\ reqs[r].pc = "route" /\ reqs[r].route = "analyze"
  /\ \E upload \in Uploads, fields \in MultipartBodies :
       \E sizeOk \in SizeVerdicts(upload.size) :
         reqs' = [reqs EXCEPT ![r] = MulterStep(reqs[r], upload, fields, sizeOk)]
  /\ UNCHANGED <<env, probe>>

MatchJson(r) ==
  /\ reqs[r].pc = "route" /\ reqs[r].route = "match"
  /\ reqs' = [reqs EXCEPT ![r] = MatchJsonStep(reqs[r])]
  /\ UNCHANGED <<env, probe>>

AnalyzeFile(r) ==
  /\ reqs[r].pc = "h_file"
  /\ \E lib \in LibraryResults(FileExt(reqs[r].file.originalname)) :
       reqs' = [reqs EXCEPT ![r] = AnalyzeFileStep(reqs[r], lib)]
  /\ UNCHANGED <<env, probe>>

AnalyzeCheck(r) ==
  /\ reqs[r].pc = "h_check"
  /\ reqs' = [reqs EXCEPT ![r] = AnalyzeCheckStep(reqs[r], env.GEMINI_API_KEY)]
  /\ UNCHANGED <<env, probe>>

MatchCheck(r) ==
  /\ reqs[r].pc = "m_check"
  /\ reqs' = [reqs EXCEPT ![r] = MatchCheckStep(reqs[r], env.GEMINI_API_KEY)]
  /\ UNCHANGED <<env, probe>>

Prompt(r) ==
  /\ reqs[r].pc = "prompt"
  /\ reqs' = [reqs EXCEPT ![r] = PromptStep(reqs[r])]
  /\ UNCHANGED <<env, probe>>

Call(r) ==
  /\ reqs[r].pc = "call"
  /\ reqs' = [reqs EXCEPT ![r] = CallStep(reqs[r])]
  /\ UNCHANGED <<env, probe>>

Outcomes ==
  {[threw |-> TRUE, text |-> <<>>]} \cup {[threw |-> FALSE, text |-> c] : c \in Completions}

Return(r) ==
  /\ reqs[r].pc = "await"
  /\ \E outcome \in Outcomes :
       reqs' = [reqs EXCEPT ![r] = ReturnStep(reqs[r], outcome)]
  /\ UNCHANGED <<env, probe>>

Parse(r) ==
  /\ reqs[r].pc = "parse"
  /\ reqs' = [reqs EXCEPT ![r] = ParseStep(reqs[r])]
  /\ UNCHANGED <<env, probe>>

Send(r) ==
  /\ reqs[r].pc = "send"
  /\ reqs' = [reqs EXCEPT ![r] = SendStep(reqs[r])]
  /\ UNCHANGED <<env, probe>>

NoProbe == [n |-> 0, text |-> <<>>]

Init ==
  /\ env \in {[GEMINI_API_KEY |-> k] : k \in ApiKeys}
  /\ reqs = [r \in Requests |-> Idle]
  /\ probe = NoProbe

Next ==
  \E r \in Requests :
    \/ Receive(r)
    \/ Cors(r)
    \/ Json(r)
    \/ Health(r)
    \/ Multer(r)
    \/ MatchJson(r)
    \/ AnalyzeFile(r)
    \/ AnalyzeCheck(r)
    \/ MatchCheck(r)
    \/ Prompt(r)
    \/ Call(r)
    \/ Return(r)
    \/ Parse(r)
    \/ Send(r)

Spec == Init /\ [][Next]_vars

----------------------------------------------------------------------------
(* The origin check on its own: an Origin header is put together from      *)
(* pieces, then sent with a GET /api/health request.                       *)

OriginTokens ==
  { S_https, S_http, <<"F","o","0">>, <<"-">>, <<".">>,
    <<".">> \o S_lovable_dev, <<".">> \o S_lovableproject_com,
    <<".","e","v","i","l",".","c","o","m">>, <<":","8","4","4","3">> }

AppendToken ==
  /\ \A r \in Requests : reqs[r].pc = "idle"
  /\ probe.n < MaxTokens
  /\ \E tok \in OriginTokens : probe' = [n |-> probe.n + 1, text |-> probe.text \o tok]
  /\ UNCHANGED <<env, reqs>>

\* No header at all is possible when nothing was put together.
ReceiveProbe ==
  /\ \A r \in Requests : reqs[r].pc = "idle"
  /\ \E origin \in {Str(probe.text)} \cup (IF probe.text = <<>> THEN {Undefined} ELSE {}) :
       reqs' = [reqs EXCEPT ![1] = [Idle EXCEPT !.pc = "cors", !.route = "health",
                                                !.origin = origin]]
  /\ UNCHANGED <<env, probe>>

OriginSeeds == {<<>>, S_foo_lovable, S_evil} \cup allowedOrigins

InitOrigin ==
  /\ env = [GEMINI_API_KEY |-> Undefined]
  /\ reqs = [r \in Requests |-> Idle]
  /\ probe \in {[n |-> 0, text |-> seed] : seed \in OriginSeeds}

NextOrigin ==
  \/ AppendToken
  \/ ReceiveProbe
  \/ \E r \in Requests : Cors(r)
  \/ \E r \in Requests : Json(r)
  \/ \E r \in Requests : Health(r)

SpecOrigin == InitOrigin /\ [][NextOrigin]_vars

----------------------------------------------------------------------------
(* Observations *)

Post(q) == q.route \in {"analyze", "match"}

KeyUnset == ~(env.GEMINI_API_KEY.t = "string" /\ Len(env.GEMINI_API_KEY.v) > 0)

ConfigError == "GEMINI_API_KEY not configured in .env file"

\* The stage of the specification's per-request state machine a request is in:
\* VALIDATED once its input passed the checks made on it (the upload gate for a
\* file, else the handler's checks), EXTRACTED once extractTextFromFile returned.
Stage(q) ==
  CASE q.pc = "idle" -> "NONE"
    [] q.pc \in {"cors", "json", "route", "m_check"} -> "RECEIVED"
    [] q.pc = "h_file" -> IF q.file.present THEN "VALIDATED" ELSE "RECEIVED"
    [] q.pc = "h_check" -> IF q.file.present THEN "EXTRACTED" ELSE "RECEIVED"
    [] q.pc = "prompt" -> IF q.file.present THEN "EXTRACTED" ELSE "VALIDATED"
    [] q.pc = "call" -> "PROMPTED"
    [] q.pc \in {"await", "parse"} -> "CALLED_LLM"
    [] q.pc = "send" -> "PARSED"
    [] q.pc = "done" /\ q.status = 200 -> "RESPONDED"
    [] OTHER -> "ERRORED"

----------------------------------------------------------------------------
(* Claims *)

\* C1: every /api/analyze-resume request carrying a file whose extension is not
\* .pdf, .docx or .txt is answered with status 400, and extractTextFromFile is
\* never invoked for it.
C1_UnsupportedExtensionIs400 ==
  \A r \in Requests :
    LET q == reqs[r]
    IN (q.route = "analyze" /\ q.upload.present
          /\ FileExt(q.upload.originalname) \notin allowedTypes)
       => (q.pc = "done" /\ q.status = 400 /\ q.extractCalls = 0)

\* C2: a request whose uploaded file is larger than 10 MiB is rejected whatever
\* its name and content: it is answered with an error status, its file never
\* reaches extraction, no LLM call is made and it never gets a 200.
C2_OversizeRejected ==
  \A r \in Requests :
    LET q == reqs[r]
    IN (q.route = "analyze" /\ q.upload.present /\ q.upload.size > 10 * 1024 * 1024)
       => /\ q.pc = "done" /\ q.status >= 400 /\ q.responses = 1
          /\ ~q.file.present /\ q.extractCalls = 0 /\ q.llmCalls = 0
          /\ q.prompt = NoPrompt

C2_Witness ==
  \E r \in Requests :
    /\ reqs[r].upload.present /\ reqs[r].upload.size > 10 * 1024 * 1024
    /\ FileExt(reqs[r].upload.originalname) = <<".","p","d","f">>
    /\ reqs[r].pc = "done"

\* C3: when a request carries an accepted file and a resumeText field, the text
\* in the prompt is the text extracted from the file; resumeText is never used,
\* and when extraction fails or gives only white space the request ends in a 400
\* without a prompt or an LLM call.
C3_FileTextOnly ==
  \A r \in Requests :
    LET q == reqs[r]
    IN (q.route = "analyze" /\ q.file.present /\ q.body.resumeText # Undefined
          /\ q.extraction.called)
       => /\ q.prompt # NoPrompt =>
               /\ ~q.extraction.threw
               /\ q.prompt.parts = <<q.extraction.text>>
               /\ q.prompt.parts # <<q.body.resumeText.v>>
          /\ (q.extraction.threw \/ Trim(q.extraction.text) = <<>>) =>
               /\ q.prompt = NoPrompt /\ q.llmCalls = 0
               /\ q.pc = "done" => q.status = 400

C3_Witness ==
  \E r \in Requests :
    /\ reqs[r].file.present /\ reqs[r].body.resumeText = Str(T_bob)
    /\ reqs[r].llmCalls = 1 /\ reqs[r].prompt.parts = <<T_jane>>

\* C4 as stated: with no API key set, every request a handler of a POST route
\* answers gets status 500 with the configuration-error message, and no LLM call
\* is made for it.
C4_EveryRequestIsConfigError ==
  \A r \in Requests :
    LET q == reqs[r]
    IN (Post(q) /\ KeyUnset /\ q.pc = "done" /\ q.by = "handler")
       => (q.status = 500 /\ q.res.error = ConfigError /\ q.llmCalls = 0)

\* The checks a handler makes before it looks at the API key.
PassedInputChecks(q) ==
  /\ q.by = "handler"
  /\ IF q.route = "match"
     THEN Truthy(q.body.userProfile) /\ Truthy(q.body.userAnswers)
     ELSE /\ ~q.extraction.threw
          /\ q.resumeText.t = "string" /\ Trim(q.resumeText.v) # <<>>

\* C4 as amended: with no API key set (absent or empty) no request ever causes an
\* LLM call, and every request to a POST route that passes the checks made before
\* the key check is answered with status 500 and the configuration-error message;
\* a request that fails an earlier check gets that check's answer instead.
C4_ConfigErrorAfterInputChecks ==
  \A r \in Requests :
    LET q == reqs[r]
    IN (Post(q) /\ KeyUnset)
       => /\ q.llmCalls = 0 /\ q.prompt = NoPrompt
          /\ q.pc = "done" =>
               IF PassedInputChecks(q)
               THEN q.status = 500 /\ q.res = ErrorOnly(ConfigError)
               ELSE q.res.error # ConfigError

C4_Witness ==
  \E r \in Requests :
    /\ env.GEMINI_API_KEY = Str(<<>>)
    /\ reqs[r].route = "analyze" /\ reqs[r].file.present
    /\ reqs[r].pc = "done" /\ reqs[r].res.error = ConfigError

\* Completions that are not JSON texts.
InvalidCompletions == {C_sorry, C_fenced, C_comma, <<>>}

\* C5: on both POST routes, when the LLM call returned a completion that is not
\* valid JSON, the handler answers once, with status 500 and a JSON body holding
\* an error field and the raw completion, unchanged, as details; never a 200.
C5_UnparseableCompletionIs500 ==
  \A r \in Requests :
    LET q == reqs[r]
    IN (Post(q) /\ q.responseText.t = "string" /\ q.responseText.v \in InvalidCompletions
          /\ q.pc # "parse")
       => /\ q.pc = "done" /\ q.by = "handler" /\ q.status = 500 /\ q.responses = 1
          /\ q.res.kind = "json" /\ q.res.keys = {"error", "details"}
          /\ q.res.error # "" /\ q.res.details = q.responseText

C5_Witness ==
  \E r \in Requests :
    /\ reqs[r].route = "match" /\ reqs[r].responseText = Str(C_fenced)
    /\ reqs[r].pc = "done" /\ reqs[r].status = 500

\* C6: a /api/match-jobs request that reaches the route's handler with a body
\* lacking userProfile, userAnswers or both is answered with status 400 'Missing
\* required fields' whether or not an API key is set, and no LLM call is made.
C6_MissingFieldIs400 ==
  \A r \in Requests :
    LET q == reqs[r]
    IN (q.route = "match" /\ q.pc \in {"prompt", "call", "await", "parse", "send", "done"}
          /\ q.by # "default"
          /\ (q.body.userProfile = Undefined \/ q.body.userAnswers = Undefined))
       => /\ q.pc = "done" /\ q.by = "handler" /\ q.status = 400
          /\ q.res.error = "Missing required fields"
          /\ q.llmCalls = 0 /\ q.prompt = NoPrompt

C6_Witness ==
  \E r \in Requests :
    /\ KeyUnset
    /\ reqs[r].route = "match" /\ reqs[r].pc = "done" /\ reqs[r].status = 400
    /\ reqs[r].body.userProfile = Undefined /\ reqs[r].body.userAnswers # Undefined

\* TRUE once the origin check let the request through.
Permitted(q) == q.pc \notin {"idle", "cors"} /\ q.by # "default"

Checked(q) == q.pc \notin {"idle", "cors"}

NoOriginHeader(origin) == origin = Undefined \/ origin = Str(<<>>)

EndsWith(s, suffix) ==
  Len(s) >= Len(suffix) /\ SubSeq(s, Len(s) - Len(suffix) + 1, Len(s)) = suffix

\* A non-empty run of host labels joined by dots, each label a non-empty run of
\* letters, digits and hyphens.
IsLabels(h) ==
  /\ h # <<>>
  /\ Range(h) \subseteq LabelClass \cup {"."}
  /\ h[1] # "." /\ h[Len(h)] # "."
  /\ \A i \in 1..(Len(h) - 1) : ~(h[i] = "." /\ h[i + 1] = ".")

\* s is https://<labels>.<base>: an HTTPS origin on a subdomain of base, at any depth.
IsHttpsSubdomain(s, base) ==
  /\ StartsWith(s, S_https)
  /\ EndsWith(s, <<".">> \o base)
  /\ Len(s) > Len(S_https) + Len(base) + 1
  /\ IsLabels(SubSeq(s, Len(S_https) + 1, Len(s) - Len(base) - 1))

\* s is https://<label>.<base> with exactly one label.
IsHttpsDirectSubdomain(s, base) ==
  /\ IsHttpsSubdomain(s, base)
  /\ "." \notin Range(SubSeq(s, Len(S_https) + 1, Len(s) - Len(base) - 1))

\* C7 as stated: a request passes the origin check exactly when it has no Origin
\* header, or the header is one of the static allow-list strings, or it is an
\* HTTPS origin on any subdomain of lovable.dev or of lovableproject.com.
C7_AnySubdomainPermitted ==
  \A r \in Requests :
    LET q == reqs[r]
    IN Checked(q) =>
         (Permitted(q) <=>
            \/ NoOriginHeader(q.origin)
            \/ q.origin.v \in allowedOrigins
            \/ IsHttpsSubdomain(q.origin.v, S_lovable_dev)
            \/ IsHttpsSubdomain(q.origin.v, S_lovableproject_com))

\* C7 as amended: a request passes the origin check exactly when it has no Origin
\* header (or an empty one), or the header is one of the four static allow-list
\* strings, or it is https:// followed by exactly one label of letters, digits and
\* hyphens and then .lovable.dev or .lovableproject.com.  https://foo.lovable.dev
\* passes and https://evil.com does not.
C7_DirectSubdomainPermitted ==
  \A r \in Requests :
    LET q == reqs[r]
    IN Checked(q) =>
         /\ Permitted(q) <=>
              \/ NoOriginHeader(q.origin)
              \/ q.origin.v \in allowedOrigins
              \/ IsHttpsDirectSubdomain(q.origin.v, S_lovable_dev)
              \/ IsHttpsDirectSubdomain(q.origin.v, S_lovableproject_com)
         /\ q.origin = Str(S_foo_lovable) => Permitted(q)
         /\ q.origin = Str(S_evil) => ~Permitted(q)

\* A look-alike of a permitted origin has been refused.
C7_Witness ==
  \E r \in Requests :
    /\ reqs[r].origin =
         Str(S_https \o <<"F","o","0">> \o <<".">> \o S_lovable_dev
               \o <<".","e","v","i","l",".","c","o","m">>)
    /\ reqs[r].pc = "done" /\ reqs[r].by = "default"

\* C8: every GET /api/health request is answered with status 200 and the body
\* {status: "ok"}, whatever the API key, the Origin header and the other requests.
C8_HealthAlways200 ==
  \A r \in Requests :
    LET q == reqs[r]
    IN (q.route = "health" /\ q.pc = "done")
       => /\ q.status = 200
          /\ q.res = JsonValue(Obj(<<[key |-> <<"s","t","a","t","u","s">>,
                                     value |-> Str(<<"o","k">>)]>>))

\* C9: every request that fails, at whatever stage, is answered by a route
\* handler with a JSON body holding an error field and a message or details
\* field; none is left to the framework's default error handling.
C9_EveryFailureIsHandlerJson ==
  \A r \in Requests :
    LET q == reqs[r]
    IN (q.pc = "done" /\ q.status # 200)
       => /\ q.by = "handler"
          /\ q.res.kind = "json"
          /\ "error" \in q.res.keys
          /\ "message" \in q.res.keys \/ "details" \in q.res.keys

\* The stages that can follow a stage.
StageSuccessors(q) ==
  LET s == Stage(q)
  IN CASE s = "NONE" -> {"RECEIVED"}
       [] s = "RECEIVED" -> IF q.route = "health" THEN {"RESPONDED", "ERRORED"}
                            ELSE {"VALIDATED", "ERRORED"}
       [] s = "VALIDATED" -> IF q.file.present THEN {"EXTRACTED", "ERRORED"}
                             ELSE {"PROMPTED", "ERRORED"}
       [] s = "EXTRACTED" -> {"PROMPTED", "ERRORED"}
       [] s = "PROMPTED" -> {"CALLED_LLM", "ERRORED"}
       [] s = "CALLED_LLM" -> {"PARSED", "ERRORED"}
       [] s = "PARSED" -> {"RESPONDED", "ERRORED"}
       [] OTHER -> {}

LlmFailed(q) ==
  \/ /\ q.pc = "done" /\ q.llmCalls > 0
     /\ q.res.error \in {"Failed to analyze resume", "Failed to match jobs"}
  \/ q.responseText.t = "string" /\ JSONparse(q.responseText.v).threw /\ q.pc # "parse"

\* C11: no request ever causes more than one call to the LLM provider (llmCalls
\* counts every invocation of generateContent for the request), and after a
\* provider error or an unparseable completion the request has been answered
\* once, with status 500, after exactly one call.
C11_AtMostOneLlmCall ==
  \A r \in Requests :
    LET q == reqs[r]
    IN /\ q.llmCalls <= 1
       /\ LlmFailed(q) =>
            /\ q.pc = "done" /\ q.by = "handler" /\ q.status = 500
            /\ q.responses = 1 /\ q.llmCalls = 1

C11_Witness ==
  \E r \in Requests :
    /\ reqs[r].llmCalls = 1 /\ reqs[r].pc = "done" /\ reqs[r].status = 500
    /\ reqs[r].res.message = "provider error"

\* Missing, empty or made of white space only.
Blank(x) == ~Truthy(x) \/ (x.t = "string" /\ Trim(x.v) = <<>>)

\* The text a request to /api/analyze-resume brought: the file's when it has an
\* accepted file, else the resumeText field of its body.
ObtainedText(q) == IF q.file.present THEN Str(q.extraction.text) ELSE q.body.resumeText

\* The handler got as far as its non-empty check or beyond it.
ReachedTextCheck(q) ==
  /\ q.route = "analyze" /\ q.by # "default" /\ ~q.extraction.threw
  /\ q.pc \in {"prompt", "call", "await", "parse", "send", "done"}

\* C12: on /api/analyze-resume a prompt is only built, and the LLM only called,
\* with a resume text that is a string and non-empty after trimming, and that
\* text is the one in the prompt; when the text obtained from the file or from
\* resumeText is missing, empty or white space only, the handler answers 400
\* 'Resume text or file is required', whether or not an API key is set, and no
\* prompt is built and no LLM call made.
C12_OnlyNonBlankTextReachesLlm ==
  \A r \in Requests :
    LET q == reqs[r]
    IN q.route = "analyze" =>
         /\ (q.llmCalls > 0 \/ q.prompt # NoPrompt) =>
              /\ ObtainedText(q).t = "string"
              /\ Trim(ObtainedText(q).v) # <<>>
              /\ q.prompt.parts = <<ObtainedText(q).v>>
         /\ (ReachedTextCheck(q) /\ Blank(ObtainedText(q))) =>
              /\ q.pc = "done" /\ q.by = "handler" /\ q.status = 400
              /\ q.res.error = "Resume text or file is required"
              /\ q.llmCalls = 0 /\ q.prompt = NoPrompt

\* A file whose text is white space only was refused although a key is set.
C12_Witness ==
  \E r \in Requests :
    /\ ~KeyUnset
    /\ reqs[r].route = "analyze" /\ reqs[r].file.present
    /\ reqs[r].extraction.called /\ reqs[r].extraction.text = T_blank
    /\ reqs[r].pc = "done" /\ reqs[r].status = 400

\* The origin callback was run on the request's Origin header and refused it.
Refused(q) == q.pc \notin {"idle", "cors"} /\ ~OriginAllowed(q.origin)

\* C13: a request whose Origin header the CORS policy refuses, on any of the three
\* routes, never reaches a route handler: its body and upload are never parsed,
\* no text is extracted, no prompt is built, no LLM call is made and it never
\* gets a 200; it is answered once, with an error status, by the service's error
\* handling.
C13_RefusedOriginStopsAtCors ==
  \A r \in Requests :
    LET q == reqs[r]
    IN Refused(q) =>
         /\ q.pc = "done" /\ q.responses = 1
         /\ q.by = "default" /\ q.status >= 400 /\ q.status # 200
         /\ q.body = EmptyBody /\ ~q.multipart
         /\ q.upload = NoFile /\ q.file = NoFile
         /\ q.extractCalls = 0 /\ ~q.extraction.called
         /\ q.prompt = NoPrompt /\ q.llmCalls = 0

C13_Witness ==
  \E r \in Requests :
    /\ ~KeyUnset
    /\ reqs[r].route = "analyze" /\ reqs[r].origin = Str(S_evil)
    /\ reqs[r].pc = "done" /\ reqs[r].status = 500

\* The handler of /api/match-jobs got past its two checks.
PassedMatchChecks(q) ==
  /\ q.route = "match" /\ q.by # "default"
  /\ q.pc \in {"prompt", "call", "await", "parse", "send", "done"}
  /\ Truthy(env.GEMINI_API_KEY)
  /\ Truthy(q.body.userProfile) /\ Truthy(q.body.userAnswers)

\* C14: with an API key set, a /api/match-jobs request whose userProfile is
\* truthy and whose userAnswers is truthy but not an array passes the field
\* check, fails while the prompt is built and is answered by the handler with
\* status 500 'Failed to match jobs', never 400, with no prompt and no LLM call;
\* a request whose userAnswers is the empty array passes the check as well and,
\* once answered, has had its one LLM call.
C14_NonArrayAnswersIs500 ==
  \A r \in Requests :
    LET q == reqs[r]
    IN PassedMatchChecks(q) =>
         /\ q.body.userAnswers.t # "array" =>
              /\ q.pc \in {"prompt", "done"}
              /\ q.llmCalls = 0 /\ q.prompt = NoPrompt
              /\ q.pc = "done" =>
                   /\ q.by = "handler" /\ q.status = 500 /\ q.responses = 1
                   /\ q.res.error = "Failed to match jobs"
                   /\ q.res.keys = {"error", "message"}
         /\ q.body.userAnswers = Arr(<<>>) =>
              /\ q.pc \in {"prompt", "call"} => q.llmCalls = 0
              /\ q.pc \notin {"prompt", "call"} =>
                   /\ q.llmCalls = 1
                   /\ q.prompt.template = "job-matching"
                   /\ q.prompt.parts[2] = <<>>

C14_Witness ==
  \E r \in Requests :
    /\ PassedMatchChecks(reqs[r])
    /\ reqs[r].body.userAnswers = Str(<<"y">>)
    /\ reqs[r].pc = "done" /\ reqs[r].status = 500

============================================================================
